---- MODULE Spec2Model ----
(***************************************************************************)
(* DoubleHelixArtwork (src/idle_screen.tsx): the particle model, the       *)
(* per-frame update, the short-range link pass, the base-pair pass, the    *)
(* frame scheduler (animate) and the effect's cleanup.                     *)
(*                                                                         *)
(* Numbers are fixed point.  Angles are in thousandths of a radian,        *)
(* factors (sines, noise factors, Math.random() values) in thousandths,    *)
(* lengths in tenths of a pixel.  Host timestamps are counted in ticks of  *)
(* which TicksPerFrame make one frameInterval (1000 / targetFPS ms).       *)
(*                                                                         *)
(* Of the 80 indices of the helix the mounted component is followed on     *)
(* those of Tracked; the construction loop runs over all 80.  Of a frame   *)
(* the model keeps what the program's state and the base and link geometry *)
(* depend on: the passes that only paint (backbone lines, particle disks,  *)
(* long-range links) leave the canvas "painted" and nothing else.          *)
(***************************************************************************)
EXTENDS Integers, Sequences, FiniteSets

VARIABLES
  backboneParticles1,   \* array of BackboneParticle, strand 1
  backboneParticles2,   \* array of BackboneParticle, strand 2
  basePairs,            \* array of BasePair
  time,                 \* logical frame counter
  lastFrameTime,        \* last accepted frame time, 0 before the first callback
  animationFrameRef,    \* animationFrameRef.current: a handle, or 0 for null
  pending,              \* host: handles of the registered, not yet run callbacks
  nextHandle,           \* host: the handle the next requestAnimationFrame returns
  now,                  \* host: the timestamp of the latest callback
  phase,                \* the effect: "constructing", "mounted" or "cleanedUp"
  canvas,               \* "blank", "painted" (a frame was drawn) or "cleared"
  allPoints,            \* the latest frame's backbone points, sorted by z
  drawnLinks,           \* short-range links stroked in the latest frame
  drawnBases,           \* per base pair, the two arcs filled in the latest frame
  branch,               \* which path the latest animate call took
  spanStart,            \* observer: <<timestamp, frames>> at the start of a span
  subject,              \* direct calls of update: the entity called
  before,               \* direct calls of update: the entity before the first call
  outputs               \* direct calls of update: the returned points

vars == <<backboneParticles1, backboneParticles2, basePairs, time, lastFrameTime,
          animationFrameRef, pending, nextHandle, now, phase, canvas,
          allPoints, drawnLinks, drawnBases, branch, spanStart, subject, before, outputs>>

entityVars == <<backboneParticles1, backboneParticles2, basePairs>>
loopVars == <<time, lastFrameTime, animationFrameRef, pending, nextHandle, now,
              phase, canvas, allPoints, drawnLinks, drawnBases, branch, spanStart>>
callVars == <<subject, before, outputs>>

(***************************************************************************)
(* Bounds of the model.                                                    *)
(***************************************************************************)
TicksPerFrame == 4      \* resolution of host timestamps: ticks per frameInterval
MaxTime == 22           \* latest host timestamp, in ticks
MaxDelta == 9           \* longest gap between two host callbacks, in ticks
MaxTimeSub == 28        \* latest host timestamp when callbacks are close, in ticks
MaxTimeFrames == 13     \* latest host timestamp when all draws are enumerated
MaxCallTime == 40       \* largest time value passed to a direct update call

(***************************************************************************)
(* Program constants.                                                      *)
(***************************************************************************)
PI == 3142
HALF_PI == PI \div 2
ROTATION_PER_BP == 599
RISE_PER_BP == 8
HELIX_DIAMETER == 60
HELIX_RADIUS == HELIX_DIAMETER \div 2
INCLINATION == -21
PROPELLER_TWIST == 279
numBasePairs == 80
TWO_PI == PI * 2
animationSpeed == 10
width == 800
height == 600
frameInterval == TicksPerFrame

\* Lengths: pixels to tenths of a pixel.
Px(n) == n * 10

(***************************************************************************)
(* JavaScript numbers that may be undefined or NaN.                        *)
(***************************************************************************)
Undefined == [t |-> "undefined", v |-> 0]
NaN == [t |-> "NaN", v |-> 0]
Num(n) == [t |-> "number", v |-> n]

\* a - b, a + b: NaN unless both are numbers (ToNumber(undefined) is NaN)
JsSub(a, b) == IF a.t = "number" /\ b.t = "number" THEN Num(a.v - b.v) ELSE NaN
JsAdd(a, b) == IF a.t = "number" /\ b.t = "number" THEN Num(a.v + b.v) ELSE NaN
\* Math.random() * a, with Math.random() = u / 1000
JsScale(u, a) == IF a.t = "number" THEN Num((u * a.v) \div 1000) ELSE NaN
\* a > b: false when either is NaN
JsGt(a, b) == a.t = "number" /\ b.t = "number" /\ a.v > b.v

\* mutant of random: a call without arguments ranges over [0, 1)
random_UnitDefault(u, min, max) ==
  LET max2 == IF max = Undefined THEN (IF min = Undefined THEN Num(1000) ELSE min) ELSE max
      min2 == IF max = Undefined THEN Num(0) ELSE min
  IN  JsAdd(JsScale(u, JsSub(max2, min2)), min2)

\* random(min, max) with Math.random() = u / 1000; random() passes Undefined twice
random(u, min, max) ==
  LET max2 == IF max = Undefined THEN min ELSE max
      min2 == IF max = Undefined THEN Num(0) ELSE min
  IN  JsAdd(JsScale(u, JsSub(max2, min2)), min2)

\* dist(...) < limit, compared on the squares
distLess(p1, p2, limit) ==
  LET dx == p2.x - p1.x
      dy == p2.y - p1.y
      dz == p2.z - p1.z
  IN  dx * dx + dy * dy + dz * dz < limit * limit

(***************************************************************************)
(* Math.sin and Math.cos in thousandths, by Bhaskara's approximation.      *)
(***************************************************************************)
SinHalf(x) ==
  LET num == 16 * x * (PI - x)
      den == 5 * PI * PI - 4 * x * (PI - x)
  IN  ((num \div 100) * 1000) \div (den \div 100)

Sin(a) ==
  LET r == a % TWO_PI
  IN  IF r <= PI THEN SinHalf(r) ELSE 0 - SinHalf(r - PI)

Cos(a) == Sin(a + HALF_PI)

\* x * f for a factor f in thousandths, rounded toward minus infinity
Times(x, f) == (x * f) \div 1000

\* mutant of BaseY: the rise applied to the index alone
BaseY_RiseFirst(bpIndex) == bpIndex * RISE_PER_BP - numBasePairs \div 2

\* this.baseY of both classes: the longitudinal baseline offset, in pixels
BaseY(bpIndex) == (bpIndex - numBasePairs \div 2) * RISE_PER_BP

(***************************************************************************)
(* class BackboneParticle                                                  *)
(***************************************************************************)
\* constructor(bpIndex, strand); us: the six Math.random() values it consumes
NewBackboneParticle(bpIndex, strand, us) ==
  [ bpIndex     |-> bpIndex,
    strand      |-> strand,
    baseY       |-> BaseY(bpIndex),
    size        |-> random(us[1], Num(2000), Num(4000)).v,
    opacity     |-> random(us[2], Num(160000), Num(200000)).v,
    entropy     |-> random(us[3], Num(800), Num(1200)).v,
    phaseNoise  |-> random(us[4], Num(0), Num(TWO_PI)).v,
    radiusNoise |-> random(us[5], Num(850), Num(1150)).v,
    yNoise      |-> random(us[6], Num(-2000), Num(2000)).v,
    connections |-> {} ]

\* update(time): the returned point; the particle is not written
BackboneParticleUpdate(p, t) ==
  LET rotation == p.bpIndex * ROTATION_PER_BP + Times(t * animationSpeed, p.entropy)
      strandPhase == IF p.strand = 1 THEN 0 ELSE PI
      totalRotation == rotation + strandPhase + p.phaseNoise \div 10
      breathingRadius ==
        Times(Times(Px(HELIX_RADIUS), p.radiusNoise),
              1000 + Sin(t * 30 + p.phaseNoise) \div 10)
      x == Px(width) \div 2 + Times(breathingRadius, Cos(totalRotation))
      y == Px(height) \div 2 + Px(p.baseY) + p.yNoise \div 100
             + Times(Px(3), Sin(t * 20 + p.phaseNoise))
      z == Times(breathingRadius, Sin(totalRotation))
      inclinedY == y + Times(Times(Px(5), Sin(INCLINATION)), Sin(totalRotation))
  IN  [ x |-> x, y |-> inclinedY, z |-> z,
        size |-> p.size, opacity |-> p.opacity, strand |-> p.strand,
        bpIndex |-> p.bpIndex, rotation |-> totalRotation, entropy |-> p.entropy,
        connections |-> p.connections ]

(***************************************************************************)
(* class BasePair                                                          *)
(***************************************************************************)
\* constructor(bpIndex); us: the five Math.random() values it consumes
NewBasePair(bpIndex, us) ==
  LET type == IF JsGt(random(us[3], Undefined, Undefined), Num(600)) THEN "GC" ELSE "AT"
  IN  [ bpIndex   |-> bpIndex,
        baseY     |-> BaseY(bpIndex),
        size      |-> random(us[1], Num(3000), Num(5000)).v,
        opacity   |-> random(us[2], Num(120000), Num(160000)).v,
        type      |-> type,
        strength  |-> IF type = "GC" THEN random(us[4], Num(700), Num(1000)).v
                                     ELSE random(us[4], Num(400), Num(800)).v,
        bondPhase |-> random(us[5], Num(0), Num(TWO_PI)).v,
        isConnected |-> TRUE,
        reconnectionTimer |-> 0 ]

\* update(time), the bond part: the pair after the timer and the flag are written.
\* One Math.random() value u is consumed: by the break test of a connected
\* pair, by the dwell threshold random(30, 80) of a broken one.
BasePairBond(bp, u) ==
  LET timer == bp.reconnectionTimer + 1
      bondStability == IF bp.type = "GC" THEN 980 ELSE 950
  IN  IF bp.isConnected /\ JsGt(random(u, Undefined, Undefined), Num(bondStability))
      THEN [bp EXCEPT !.isConnected = FALSE, !.reconnectionTimer = 0]
      ELSE IF ~bp.isConnected
              /\ JsGt(Num(timer * 1000), random(u, Num(30000), Num(80000)))
      THEN [bp EXCEPT !.isConnected = TRUE, !.reconnectionTimer = 0]
      ELSE [bp EXCEPT !.reconnectionTimer = timer]

\* const y = height / 2 + this.baseY
BaselineY(bp) == Px(height) \div 2 + Px(bp.baseY)

\* const propellerOffset = Math.sin(PROPELLER_TWIST) * 3 * bondFluctuation
PropellerOffset(bp, t) ==
  LET bondFluctuation == Sin(t * 50 + bp.bondPhase) \div 10 + 1000
  IN  Times(Times(Px(3), Sin(PROPELLER_TWIST)), bondFluctuation)

\* update(time), the returned object, of the pair bp as the bond part left it.
\* The literal names the key y twice; the later value, y + propellerOffset,
\* is the one the object holds.
BasePairPoint(bp, t) ==
  LET rotation == bp.bpIndex * ROTATION_PER_BP + t * animationSpeed
      bondFluctuation == Sin(t * 50 + bp.bondPhase) \div 10 + 1000
  IN  [ x1 |-> Px(width) \div 2 + Times(Px(HELIX_RADIUS), Cos(rotation)),
        z1 |-> Times(Px(HELIX_RADIUS), Sin(rotation)),
        x2 |-> Px(width) \div 2 + Times(Px(HELIX_RADIUS), Cos(rotation + PI)),
        y  |-> BaselineY(bp) + PropellerOffset(bp, t),
        z2 |-> Times(Px(HELIX_RADIUS), Sin(rotation + PI)),
        size |-> bp.size, opacity |-> bp.opacity, type |-> bp.type,
        bpIndex |-> bp.bpIndex,
        strength |-> Times(bp.strength, bondFluctuation),
        isConnected |-> bp.isConnected ]

(***************************************************************************)
(* The frame: update, depth sort, link pass, base-pair pass.               *)
(***************************************************************************)
\* The model follows the first and the last index of the helix.
Tracked == <<0, numBasePairs - 1>>

\* Math.random() values the model enumerates
Draws == {0, 999}

RECURSIVE SortedInsert(_, _)
\* p placed behind every point of the sorted s whose z is not larger
SortedInsert(s, p) ==
  IF s = <<>> THEN <<p>>
  ELSE IF s[Len(s)].z <= p.z THEN Append(s, p)
  ELSE Append(SortedInsert(SubSeq(s, 1, Len(s) - 1), p), s[Len(s)])

RECURSIVE SortByZ(_)
\* allPoints.sort((a, b) => a.z - b.z): a stable sort
SortByZ(s) ==
  IF s = <<>> THEN <<>>
  ELSE SortedInsert(SortByZ(SubSeq(s, 1, Len(s) - 1)), s[Len(s)])

\* the pairs i < j of the nested loops, as 0-based positions in allPoints
IndexPairs(n) == {ij \in (0..(n - 1)) \X (0..(n - 1)) : ij[1] < ij[2]}

\* d < 80 for the pair ij of the sorted points P
Near(P, ij) == distLess(P[ij[1] + 1], P[ij[2] + 1], Px(80))

\* if (d < 80 && random() > 0.7): u is the value Math.random() gives, drawn
\* only when d < 80
LinkGate(near, u) == near /\ JsGt(random(u, Undefined, Undefined), Num(700))

\* the pairs whose line is stroked; lu: the Math.random() value of each near pair
LinksDrawn(P, lu) ==
  {ij \in IndexPairs(Len(P)) : Near(P, ij) /\ LinkGate(TRUE, lu[ij])}

\* mutant of ConnectionsAfter: the two add calls moved out of the random gate
ConnectionsAfter_Ungated(P, lu, k) ==
  {j \in 0..(Len(P) - 1) : (<<k, j>> \in IndexPairs(Len(P)) /\ Near(P, <<k, j>>))
                            \/ (<<j, k>> \in IndexPairs(Len(P)) /\ Near(P, <<j, k>>))}

\* p1.connections.add(j); p2.connections.add(i): what the set of the point at
\* position k holds after the loops, the sets having been cleared before them
ConnectionsAfter(P, lu, k) ==
  {j \in 0..(Len(P) - 1) : (<<k, j>> \in IndexPairs(Len(P)) /\ Near(P, <<k, j>>)
                                /\ LinkGate(TRUE, lu[<<k, j>>]))
                            \/ (<<j, k>> \in IndexPairs(Len(P)) /\ Near(P, <<j, k>>)
                                /\ LinkGate(TRUE, lu[<<j, k>>]))}

\* the position in the sorted points P of the point of particle p
PositionOf(P, p) ==
  CHOOSE k \in 0..(Len(P) - 1) :
    P[k + 1].strand = p.strand /\ P[k + 1].bpIndex = p.bpIndex

\* the particles of one strand once the link pass has rewritten their sets
WithConnections(particles, P, lu) ==
  [k \in DOMAIN particles |->
     [particles[k] EXCEPT
        !.connections = ConnectionsAfter(P, lu, PositionOf(P, particles[k]))]]

\* ctx.arc(bp.x1, bp.y, ...) and ctx.arc(bp.x2, bp.y, ...) of the base-pair pass
BaseArcs(bp) == [x1 |-> bp.x1, y1 |-> bp.y, x2 |-> bp.x2, y2 |-> bp.y]

(***************************************************************************)
(* The frame scheduler.                                                    *)
(***************************************************************************)
\* mutant of AcceptedFrameTime: the remainder is not carried
AcceptedFrameTime_NoCarry(currentTime, deltaTime) == currentTime

\* lastFrameTime = currentTime - deltaTime % frameInterval
AcceptedFrameTime(currentTime, deltaTime) ==
  currentTime - (deltaTime % frameInterval)

\* mutant of Reregisters: the early return of the first call registers nothing
Reregisters_NotFirst(path) == path \in {"skip", "frame"}

\* animate ends in requestAnimationFrame(animate) on each of its paths:
\* "first" (only records the timestamp), "skip" and "frame"
Reregisters(path) == path \in {"first", "skip", "frame"}

\* mutant of Cancelled: the cleanup cancels nothing
Cancelled_Never(ref, pend) == pend

\* cancelAnimationFrame(animationFrameRef.current), under if (animationFrameRef.current)
Cancelled(ref, pend) == IF ref # 0 THEN pend \ {ref} ELSE pend

\* the backbone points of the frame that would run next, sorted by z
NextSorted ==
  SortByZ([k \in DOMAIN backboneParticles1 |->
             BackboneParticleUpdate(backboneParticles1[k], time + 1)]
          \o [k \in DOMAIN backboneParticles2 |->
             BackboneParticleUpdate(backboneParticles2[k], time + 1)])

\* the pairs of the next frame's link pass that reach random()
NearPairs(P) == {ij \in IndexPairs(Len(P)) : Near(P, ij)}

\* the Math.random() values, each from D, a call of animate may consume:
\* none unless it runs a frame
FrameDraws(currentTime, D) ==
  IF lastFrameTime # 0 /\ currentTime - lastFrameTime >= frameInterval
  THEN [bu : [DOMAIN basePairs -> D], lu : UNION {[NearPairs(P) -> D] : P \in {NextSorted}}]
  ELSE [bu : {<<>>}, lu : {<<>>}]

\* the host runs the registered callback h with timestamp currentTime;
\* bu: the Math.random() value each base pair's update consumes,
\* lu: the one each near pair of the link pass consumes
Animate(h, currentTime, bu, lu, observe) ==
  LET path == IF lastFrameTime = 0 THEN "first"
              ELSE IF currentTime - lastFrameTime >= frameInterval THEN "frame"
              ELSE "skip"
  IN  /\ h \in pending
      /\ now' = currentTime
      /\ branch' = path
      /\ IF Reregisters(path)
         THEN /\ animationFrameRef' = nextHandle
              /\ pending' = (pending \ {h}) \cup {nextHandle}
              /\ nextHandle' = nextHandle + 1
         ELSE /\ pending' = pending \ {h}
              /\ UNCHANGED <<animationFrameRef, nextHandle>>
      /\ IF path = "first"
         THEN /\ lastFrameTime' = currentTime
              /\ UNCHANGED <<time, entityVars, canvas, allPoints, drawnLinks, drawnBases>>
         ELSE IF path = "frame"
         THEN /\ lastFrameTime' = AcceptedFrameTime(currentTime, currentTime - lastFrameTime)
              /\ time' = time + 1
              /\ canvas' = "painted"
              /\ basePairs' = [k \in DOMAIN basePairs |-> BasePairBond(basePairs[k], bu[k])]
              /\ drawnBases' = [k \in DOMAIN basePairs |->
                                  BaseArcs(BasePairPoint(basePairs'[k], time'))]
              /\ \E sorted \in {NextSorted} :
                   /\ backboneParticles1' = WithConnections(backboneParticles1, sorted, lu)
                   /\ backboneParticles2' = WithConnections(backboneParticles2, sorted, lu)
                   /\ allPoints' = [k \in DOMAIN sorted |->
                                      [sorted[k] EXCEPT
                                         !.connections = ConnectionsAfter(sorted, lu, k - 1)]]
                   /\ drawnLinks' = LinksDrawn(sorted, lu)
         ELSE UNCHANGED <<lastFrameTime, time, entityVars, canvas, allPoints,
                          drawnLinks, drawnBases>>
      /\ spanStart' \in (IF observe /\ spanStart = <<>>
                          THEN {<<>>, <<currentTime, time'>>} ELSE {spanStart})
      /\ UNCHANGED <<phase, callVars>>

\* the cleanup function the effect returns
Cleanup ==
  /\ phase = "mounted"
  /\ phase' = "cleanedUp"
  /\ pending' = Cancelled(animationFrameRef, pending)
  /\ animationFrameRef' = 0
  /\ canvas' = "cleared"
  /\ drawnLinks' = {}
  /\ drawnBases' = <<>>
  /\ UNCHANGED <<entityVars, time, lastFrameTime, nextHandle, now, allPoints,
                 branch, spanStart, callVars>>

(***************************************************************************)
(* Construction: the loop that fills the three arrays.                     *)
(***************************************************************************)
\* the Math.random() values of one constructor call, all equal to u
DrawVector(n, u) == [k \in 1..n |-> u]

\* backboneParticles1.push(new BackboneParticle(i, 1))
PushBackbone1 ==
  /\ Len(backboneParticles1) < numBasePairs
  /\ Len(backboneParticles1) = Len(basePairs)
  /\ \E u \in {500} :
       backboneParticles1' =
         Append(backboneParticles1,
                NewBackboneParticle(Len(basePairs), 1, DrawVector(6, u)))
  /\ UNCHANGED <<backboneParticles2, basePairs, loopVars, callVars>>

\* backboneParticles2.push(new BackboneParticle(i, 2))
PushBackbone2 ==
  /\ Len(backboneParticles1) = Len(basePairs) + 1
  /\ Len(backboneParticles2) = Len(basePairs)
  /\ \E u \in {500} :
       backboneParticles2' =
         Append(backboneParticles2,
                NewBackboneParticle(Len(basePairs), 2, DrawVector(6, u)))
  /\ UNCHANGED <<backboneParticles1, basePairs, loopVars, callVars>>

\* basePairs.push(new BasePair(i)), which ends iteration i
PushBasePair ==
  /\ Len(backboneParticles2) = Len(basePairs) + 1
  /\ \E u \in {500} :
       basePairs' = Append(basePairs, NewBasePair(Len(basePairs), DrawVector(5, u)))
  /\ UNCHANGED <<backboneParticles1, backboneParticles2, loopVars, callVars>>

\* no direct call of update has been made
InitCalls ==
  /\ subject = [kind |-> "none", strand |-> 0, k |-> 0, t |-> 0]
  /\ before = [bpIndex |-> -1]
  /\ outputs = <<>>

\* the effect has reached the loop of line 157: empty arrays, nothing registered
InitConstruct ==
  /\ backboneParticles1 = <<>>
  /\ backboneParticles2 = <<>>
  /\ basePairs = <<>>
  /\ time = 0
  /\ lastFrameTime = 0
  /\ animationFrameRef = 0
  /\ pending = {}
  /\ nextHandle = 1
  /\ now = 0
  /\ phase = "constructing"
  /\ canvas = "blank"
  /\ allPoints = <<>>
  /\ drawnLinks = {}
  /\ drawnBases = <<>>
  /\ branch = "none"
  /\ spanStart = <<>>
  /\ InitCalls

NextConstruct == PushBackbone1 \/ PushBackbone2 \/ PushBasePair

SpecInit == InitConstruct /\ [][NextConstruct]_vars

(***************************************************************************)
(* The mounted component: the effect has run to its end.                   *)
(***************************************************************************)
\* one Math.random() value per tracked index: all of them, and the uniform ones
AllDraws(D) == [DOMAIN Tracked -> D]
UniformDraws(D) == {[k \in DOMAIN Tracked |-> u] : u \in D}

\* the arrays of the tracked indices, the entities of each array built from
\* the values of one element of F
InitEntities(F) ==
  \E f1 \in F, f2 \in F, f3 \in F :
    /\ backboneParticles1 =
         [k \in DOMAIN Tracked |-> NewBackboneParticle(Tracked[k], 1, DrawVector(6, f1[k]))]
    /\ backboneParticles2 =
         [k \in DOMAIN Tracked |-> NewBackboneParticle(Tracked[k], 2, DrawVector(6, f2[k]))]
    /\ basePairs =
         [k \in DOMAIN Tracked |-> NewBasePair(Tracked[k], DrawVector(5, f3[k]))]

\* time = 0, lastFrameTime = 0, and the first requestAnimationFrame(animate)
InitLoop ==
  /\ time = 0
  /\ lastFrameTime = 0
  /\ animationFrameRef = 1
  /\ pending = {1}
  /\ nextHandle = 2
  /\ now = 0
  /\ phase = "mounted"
  /\ canvas = "blank"
  /\ allPoints = <<>>
  /\ drawnLinks = {}
  /\ drawnBases = <<>>
  /\ branch = "none"
  /\ spanStart = <<>>

Init == InitEntities(UniformDraws({500})) /\ InitLoop /\ InitCalls

\* a host callback at any later timestamp
Callback ==
  \E h \in pending, d \in 1..MaxDelta :
    /\ now + d <= MaxTime
    /\ \E r \in FrameDraws(now + d, {500}) : Animate(h, now + d, r.bu, r.lu, FALSE)

Next == Callback \/ Cleanup

Spec == Init /\ [][Next]_vars

(***************************************************************************)
(* Host callbacks less than one frameInterval apart, with an observer      *)
(* that may start a span at any callback.                                  *)
(***************************************************************************)
InitSub == Init

CallbackSub ==
  \E h \in pending, d \in 1..(frameInterval - 1) :
    /\ now + d <= MaxTimeSub
    /\ \E r \in FrameDraws(now + d, {500}) : Animate(h, now + d, r.bu, r.lu, TRUE)

NextSub == CallbackSub \/ Cleanup

SpecSub == InitSub /\ [][NextSub]_vars

(***************************************************************************)
(* A few frames, with every entity's constructor values and every frame's  *)
(* Math.random() values enumerated.                                        *)
(***************************************************************************)
InitFrames == InitEntities(AllDraws(Draws)) /\ InitLoop /\ InitCalls

CallbackFrames ==
  \E h \in pending, d \in {frameInterval - 1, frameInterval} :
    /\ now + d <= MaxTimeFrames
    /\ \E r \in FrameDraws(now + d, Draws) : Animate(h, now + d, r.bu, r.lu, FALSE)

NextFrames == CallbackFrames \/ Cleanup

SpecFrames == InitFrames /\ [][NextFrames]_vars

(***************************************************************************)
(* Direct calls of update(t) on one entity, at most two in succession.     *)
(***************************************************************************)
\* the entity the calls are made on
Subject ==
  IF subject.kind = "basePair" THEN basePairs[subject.k]
  ELSE IF subject.strand = 1 THEN backboneParticles1[subject.k]
  ELSE backboneParticles2[subject.k]

\* p.update(t) on a backbone particle
CallBackboneUpdate ==
  \E strand \in {1, 2}, k \in DOMAIN Tracked, t \in 0..MaxCallTime :
    LET s == [kind |-> "backbone", strand |-> strand, k |-> k, t |-> t]
        p == IF strand = 1 THEN backboneParticles1[k] ELSE backboneParticles2[k]
    IN  /\ Len(outputs) < 2
        /\ outputs # <<>> => subject = s
        /\ subject' = s
        /\ before' = IF outputs = <<>> THEN p ELSE before
        /\ outputs' = Append(outputs, BackboneParticleUpdate(p, t))
        /\ UNCHANGED <<entityVars, loopVars>>

\* p.update(t) on a base pair; u: the Math.random() value it consumes
CallBasePairUpdate ==
  \E k \in DOMAIN Tracked, t \in 0..MaxCallTime, u \in Draws :
    LET s == [kind |-> "basePair", strand |-> 0, k |-> k, t |-> t]
        bp == BasePairBond(basePairs[k], u)
    IN  /\ Len(outputs) < 2
        /\ outputs # <<>> => subject = s
        /\ subject' = s
        /\ before' = IF outputs = <<>> THEN basePairs[k] ELSE before
        /\ basePairs' = [basePairs EXCEPT ![k] = bp]
        /\ outputs' = Append(outputs, BasePairPoint(bp, t))
        /\ UNCHANGED <<backboneParticles1, backboneParticles2, loopVars>>

NextUpdate == CallBackboneUpdate \/ CallBasePairUpdate

InitUpdate == InitEntities(AllDraws(Draws)) /\ InitLoop /\ InitCalls

SpecUpdate == InitUpdate /\ [][NextUpdate]_vars

(***************************************************************************)
(* Properties.                                                             *)
(***************************************************************************)
\* the particle whose point stands at position k (from 1) of allPoints
ParticleAt(k) ==
  CHOOSE p \in {backboneParticles1[i] : i \in DOMAIN backboneParticles1}
               \cup {backboneParticles2[i] : i \in DOMAIN backboneParticles2} :
    p.strand = allPoints[k].strand /\ p.bpIndex = allPoints[k].bpIndex

\* C1: with host callbacks less than one frameInterval apart, the frames run
\* over any span from one callback to a later one number floor(D / frameInterval)
\* give or take one, D being the span's duration; and after every callback
\* currentTime - lastFrameTime is at most one frameInterval.
C1_FrameCount ==
  /\ branch # "none" => now - lastFrameTime <= frameInterval
  /\ spanStart # <<>> =>
       LET D == now - spanStart[1]
           n == time - spanStart[2]
       IN  n \in ((D \div frameInterval) - 1)..((D \div frameInterval) + 1)

\* a span of at least four intervals has been observed, ending in a skipped callback
C1_Witness ==
  /\ spanStart # <<>>
  /\ now - spanStart[1] >= 4 * frameInterval
  /\ time - spanStart[2] >= 3
  /\ branch = "skip"

\* C2: once the cleanup has run no callback is registered, animationFrameRef is
\* null and the canvas is cleared; from then on no frame runs: the time
\* counter, the entities and the canvas stay as they are.
C2_Teardown ==
  [][/\ phase' = "cleanedUp" =>
          pending' = {} /\ animationFrameRef' = 0 /\ canvas' = "cleared"
     /\ phase = "cleanedUp" =>
          UNCHANGED <<time, lastFrameTime, canvas, entityVars, allPoints,
                      drawnLinks, drawnBases, pending>>]_vars

\* the cleanup has run before any host callback
C2_Witness ==
  /\ phase = "cleanedUp"
  /\ branch = "none"
  /\ time = 0
  /\ lastFrameTime = 0
  /\ pending = {}

\* C4: while the component is mounted exactly one host callback is registered,
\* the one animationFrameRef holds, whichever path the latest animate call took.
C4_OnePending ==
  phase = "mounted" =>
    /\ Cardinality(pending) = 1
    /\ animationFrameRef # 0
    /\ pending = {animationFrameRef}

\* a skipped callback after the first callback and a frame
C4_Witness ==
  /\ phase = "mounted"
  /\ branch = "skip"
  /\ time >= 1
  /\ Cardinality(pending) = 1

\* the three arrays, once the loop has filled them
FilledArrays ==
  {A \in {backboneParticles1, backboneParticles2, basePairs} : Len(A) = numBasePairs}

\* C5 as stated: offset(i) = -offset(N - 1 - i) for every index i of a filled array.
C5_Symmetric ==
  \A A \in FilledArrays :
    \A k \in 1..numBasePairs : A[k].baseY = 0 - A[numBasePairs + 1 - k].baseY

\* C5 amended: offset(i) = -offset(N - 1 - i) - RISE_PER_BP for every index i of
\* a filled array: the offsets -320 .. 312 are centred half a rise above 0.
C5_ShiftedByRise ==
  \A A \in FilledArrays :
    \A k \in 1..numBasePairs :
      /\ A[k].bpIndex = k - 1
      /\ A[k].baseY = 0 - A[numBasePairs + 1 - k].baseY - RISE_PER_BP

\* the loop has filled all three arrays
C5_Witness ==
  /\ Cardinality(FilledArrays) >= 1
  /\ Len(basePairs) = numBasePairs
  /\ basePairs[1].baseY = -320
  /\ basePairs[numBasePairs].baseY = 312

\* C6 as stated: two calls of update(t) in succession return the same object and
\* leave the entity as it was.
C6_NoMutation ==
  Len(outputs) = 2 => outputs[1] = outputs[2] /\ Subject = before

\* C6 amended: two calls of update(t) in succession return the same object; a
\* backbone particle is left as it was, a base pair has its reconnectionTimer
\* raised by one per call and nothing else changed.
C6_TimerOnly ==
  Len(outputs) = 2 =>
    /\ outputs[1] = outputs[2]
    /\ subject.kind = "backbone" => Subject = before
    /\ subject.kind = "basePair" =>
         Subject = [before EXCEPT !.reconnectionTimer = before.reconnectionTimer + 2]

\* update(t) has been called twice on a base pair
C6_Witness ==
  /\ Len(outputs) = 2
  /\ subject.kind = "basePair"
  /\ subject.t >= 1
  /\ Subject.reconnectionTimer = 2

\* C7 as stated, for a callback that finds an accepted frame time: when the
\* elapsed time is at least frameInterval one frame runs and lastFrameTime
\* advances by exactly one frameInterval; otherwise neither changes.
C7_OneInterval ==
  [][(now' # now /\ lastFrameTime # 0) =>
       IF now' - lastFrameTime >= frameInterval
       THEN time' = time + 1 /\ lastFrameTime' = lastFrameTime + frameInterval
       ELSE time' = time /\ lastFrameTime' = lastFrameTime]_vars

\* C7 amended: the first callback only records its timestamp; on a later one,
\* when the elapsed time is at least frameInterval one frame runs and
\* lastFrameTime advances by the whole intervals elapsed,
\* floor(elapsed / frameInterval) of them; otherwise neither changes.
C7_WholeIntervals ==
  [][now' # now =>
       IF lastFrameTime = 0
       THEN time' = time /\ lastFrameTime' = now'
       ELSE IF now' - lastFrameTime >= frameInterval
       THEN /\ time' = time + 1
            /\ lastFrameTime' =
                 lastFrameTime + ((now' - lastFrameTime) \div frameInterval) * frameInterval
       ELSE time' = time /\ lastFrameTime' = lastFrameTime]_vars

\* the only frame so far advanced lastFrameTime by more than one interval
C7_Witness ==
  /\ time = 1
  /\ branch = "frame"
  /\ lastFrameTime > MaxDelta + frameInterval

\* C8: in every frame the first base of a pair is drawn at the baseline y and the
\* second at the baseline y plus the propeller offset.
C8_SecondBaseOnly ==
  \A k \in DOMAIN drawnBases :
    /\ drawnBases[k].y1 = BaselineY(basePairs[k])
    /\ drawnBases[k].y2 - drawnBases[k].y1 = PropellerOffset(basePairs[k], time)

BondsNeverBreak ==
  \A k \in DOMAIN basePairs :
    basePairs[k].isConnected /\ basePairs[k].type = "AT"

====
